---------------------------- MODULE Spec2Model ----------------------------
(***************************************************************************)
(* Model of the supply-chain prediction service: input validation,         *)
(* reference-data lookup, the business-rule (constraint) engine and the    *)
(* /predict orchestration, in the local (static table) and the remote      *)
(* (dataset service) variants.                                             *)
(*                                                                         *)
(* Units.  Real-valued tonnages and distances (written with decimals in    *)
(* the source: 54.79, 50.0, 1617.27) are held as integers in hundredths,   *)
(* so 54.79 t is 5479 and 50.0 t is 5000.  raw_prediction, supply and      *)
(* final_supply are tonnages in hundredths.  Integer-valued source fields  *)
(* (loading_cost, max_capacity, wagon counts) and the validator's          *)
(* current_inventory / next_7day_demand are held as written.               *)
(***************************************************************************)
EXTENDS Integers, Sequences, FiniteSets, TLC

VARIABLES
    variant,            \* "local" (business_rule.py, ...) or "remote" (business_rule2.py, ...)
    datasets,           \* answers of the dataset service, one per endpoint
    stockyard_id,       \* argument stockyard_id
    product_id,         \* argument product_id
    raw_prediction,     \* argument raw_prediction / the model's output
    features,           \* argument features / input_features
    available_wagons,   \* outcome of get_available_wagons (the local variable
                        \* available_wagons of apply_business_rules)
    business_result,    \* outcome of apply_business_rules
    reapplied_result,   \* outcome of apply_business_rules on its own final_supply
    static_data,        \* outcome of get_stockyard_product_data
    input_data,         \* argument input_data of validate_prediction_input
    validation_errors,  \* outcome of validate_prediction_input
    model,              \* app.py global model
    feature_info,       \* app.py global feature_info
    pc,                 \* position of predict_supply
    stages,             \* stages predict_supply has run for the current request
    response,           \* outcome of predict_supply
    served              \* number of requests answered so far

vars == << variant, datasets, stockyard_id, product_id, raw_prediction, features,
           available_wagons, business_result, reapplied_result, static_data,
           input_data, validation_errors, model, feature_info, pc, stages,
           response, served >>

-----------------------------------------------------------------------------
(* Bounds of the model *)

\* raw predictions range over multiples of half a default wagon load,
\* from -MaxNegSteps to MaxRawSteps half loads
MaxRawSteps == 104
MaxNegSteps == 3
\* largest available_wagons count the dataset service reports
MaxAvail == 2
\* longest list a dataset endpoint returns
MaxRows == 2
\* how far the validator's numeric inputs range on either side of each limit
MaxOver == 1
\* number of requests the service answers
MaxRequests == 2

-----------------------------------------------------------------------------
(* Outcomes of a call *)

Pending == [kind |-> "pending"]
Return(v) == [kind |-> "return", value |-> v]
Raise(e, d) == [kind |-> "raise", exc |-> e, detail |-> d]

\* an answer of the dataset service: requests.get raised, or a status and a body
NoResponse == [raises |-> FALSE, status_code |-> 0, json |-> << >>]
ConnectionFailed == [raises |-> TRUE, status_code |-> 0, json |-> << >>]
ServerError == [raises |-> FALSE, status_code |-> 500, json |-> << >>]
Ok(rows) == [raises |-> FALSE, status_code |-> 200, json |-> rows]

SeqsUpTo(S, n) == UNION { [1..k -> S] : k \in 0..n }

Responses(rowPool) == {ConnectionFailed, ServerError} \cup { Ok(rows) : rows \in SeqsUpTo(rowPool, MaxRows) }

\* the first of the indexes in matches: next(...) and the for loops take the first match
First(matches) == CHOOSE i \in matches : \A j \in matches : i <= j

\* dict.get(key, default)
Get(d, key, default) == IF key \in DOMAIN d THEN d[key] ELSE default

EmptyDict == [k \in {} |-> 0]

-----------------------------------------------------------------------------
(* Reference data, local variant: feature_engineering.py, business_rule.py *)

DefaultWagonCapacity == 5000
DefaultWagons == 30

DefaultRecord ==
    [wagon_capacity |-> DefaultWagonCapacity, wagon_type |-> "BOY", loading_cost |-> 1500,
     distance |-> 150000, max_capacity |-> 5000]

stockyard_data ==
    [s \in {"CMO_LOC_001", "CMO_LOC_002"} |->
        IF s = "CMO_LOC_001"
        THEN [p \in {"PROD_HRP_001", "PROD_HRC_001"} |->
                IF p = "PROD_HRP_001"
                THEN [wagon_capacity |-> 5479, wagon_type |-> "BOY", loading_cost |-> 1500,
                      distance |-> 161727, max_capacity |-> 5000]
                ELSE [wagon_capacity |-> 5169, wagon_type |-> "BOXN", loading_cost |-> 1200,
                      distance |-> 161727, max_capacity |-> 5000]]
        ELSE [p \in {"PROD_HRC_001", "PROD_CRS_001"} |->
                IF p = "PROD_HRC_001"
                THEN [wagon_capacity |-> 5417, wagon_type |-> "BOY", loading_cost |-> 1200,
                      distance |-> 120050, max_capacity |-> 5000]
                ELSE [wagon_capacity |-> 5168, wagon_type |-> "BOXN", loading_cost |-> 1300,
                      distance |-> 120050, max_capacity |-> 5000]]]

\* the lookup with an empty dict as the default of the inner get
GetStockyardProductDataLocal_NoDefault(sid, pid) ==
    Get(Get(stockyard_data, sid, EmptyDict), pid, EmptyDict)

GetStockyardProductDataLocal(sid, pid) ==
    Get(Get(stockyard_data, sid, EmptyDict), pid, DefaultRecord)

wagon_availability ==
    [s \in {"CMO_LOC_001", "CMO_LOC_002", "CMO_LOC_003", "CMO_LOC_004",
            "CMO_LOC_005", "CMO_LOC_006", "CMO_LOC_007", "CMO_LOC_008"} |->
        CASE s = "CMO_LOC_001" -> 45
          [] s = "CMO_LOC_002" -> 35
          [] s = "CMO_LOC_003" -> 40
          [] s = "CMO_LOC_004" -> 30
          [] s = "CMO_LOC_005" -> 25
          [] s = "CMO_LOC_006" -> 50
          [] s = "CMO_LOC_007" -> 38
          [] s = "CMO_LOC_008" -> 42]

GetAvailableWagonsLocal(sid) == Get(wagon_availability, sid, DefaultWagons)

-----------------------------------------------------------------------------
(* Wagon availability, remote variant: business_rule2.py *)

WagonFallback == 30

\* the body of the try block: the first item of the stockyard returns its count
\* (item.get('available_wagons', 30)); no item, or a status other than 200, returns 30;
\* an exception of requests.get is caught and returns 30
GetAvailableWagonsRemote(sid, resp) ==
    LET wagon_data == resp.json
        matches == { i \in 1..Len(wagon_data) : wagon_data[i].stockyard_id = sid }
    IN  IF resp.raises THEN WagonFallback
        ELSE IF resp.status_code = 200 /\ matches # {}
             THEN Get(wagon_data[First(matches)], "available_wagons", WagonFallback)
             ELSE WagonFallback

GetAvailableWagons(v, sid, ds) ==
    IF v = "local" THEN GetAvailableWagonsLocal(sid)
    ELSE GetAvailableWagonsRemote(sid, ds.stockyard_wagons)

-----------------------------------------------------------------------------
(* The constraint engine: apply_business_rules, identical in both variants *)

\* Python round(num / den) for den > 0: nearest integer, ties to the even one
PyRound(num, den) ==
    LET q == num \div den
        r == num % den
    IN  IF 2 * r < den THEN q
        ELSE IF 2 * r > den THEN q + 1
        ELSE IF q % 2 = 0 THEN q ELSE q + 1

\* the running state of the engine: supply, wagons_required and rules_applied
\* (wagons_required is unset until rule 3)
StartRules(raw) == [supply |-> raw, wagons_required |-> 0, rules_applied |-> << >>]

\* Rule 1 noting the rule without clipping the supply
NegativeSupplyClipped_NoClip(st, raw) ==
    IF raw < 0
    THEN [st EXCEPT !.rules_applied = Append(@, "negative_supply_clipped")]
    ELSE st

\* Rule 1: no negative supply
NegativeSupplyClipped(st, raw) ==
    IF raw < 0
    THEN [st EXCEPT !.supply = 0,
                    !.rules_applied = Append(@, "negative_supply_clipped")]
    ELSE st

\* Rule 2 noting the limit without lowering the supply
WagonCapacityLimit_NotLowered(st, avail, wagon_capacity) ==
    LET max_supply_by_wagons == avail * wagon_capacity
    IN  IF st.supply > max_supply_by_wagons
        THEN [st EXCEPT !.rules_applied = Append(@, "wagon_capacity_limit")]
        ELSE st

\* Rule 2: do not exceed the available wagons
WagonCapacityLimit(st, avail, wagon_capacity) ==
    LET max_supply_by_wagons == avail * wagon_capacity
    IN  IF st.supply > max_supply_by_wagons
        THEN [st EXCEPT !.supply = max_supply_by_wagons,
                        !.rules_applied = Append(@, "wagon_capacity_limit")]
        ELSE st

\* Rule 3: round to full wagons
WagonRounding(st, wagon_capacity) ==
    LET wagons == PyRound(st.supply, wagon_capacity)
        supply_rounded == wagons * wagon_capacity
    IN  IF supply_rounded # st.supply
        THEN [st EXCEPT !.supply = supply_rounded, !.wagons_required = wagons,
                        !.rules_applied = Append(@, "wagon_rounding")]
        ELSE [st EXCEPT !.wagons_required = wagons]

\* Rule 4 forcing one wagon without setting the supply to one wagon load
MinimumSupply_SupplyKept(st, raw, wagon_capacity) ==
    IF raw > 0 /\ st.wagons_required = 0
    THEN [st EXCEPT !.wagons_required = 1,
                    !.rules_applied = Append(@, "minimum_supply")]
    ELSE st

\* Rule 4 firing for a zero prediction as well
MinimumSupply_ZeroToo(st, raw, wagon_capacity) ==
    IF raw >= 0 /\ st.wagons_required = 0
    THEN [st EXCEPT !.wagons_required = 1, !.supply = wagon_capacity,
                    !.rules_applied = Append(@, "minimum_supply")]
    ELSE st

\* Rule 4: at least one wagon if the prediction is positive
MinimumSupply(st, raw, wagon_capacity) ==
    IF raw > 0 /\ st.wagons_required = 0
    THEN [st EXCEPT !.wagons_required = 1, !.supply = wagon_capacity,
                    !.rules_applied = Append(@, "minimum_supply")]
    ELSE st

\* the note appended whether or not a rule was applied
NoRulesApplied_Always(st) ==
    [st EXCEPT !.rules_applied = Append(@, "no_rules_applied")]

\* the note left when no rule was applied
NoRulesApplied(st) ==
    IF st.rules_applied = << >>
    THEN [st EXCEPT !.rules_applied = Append(@, "no_rules_applied")]
    ELSE st

ApplyBusinessRules(raw, feats, avail) ==
    LET wagon_capacity == feats.quantity_per_wagon_tonnes
        s1 == NegativeSupplyClipped(StartRules(raw), raw)
        s2 == WagonCapacityLimit(s1, avail, wagon_capacity)
        s3 == WagonRounding(s2, wagon_capacity)
        s4 == MinimumSupply(s3, raw, wagon_capacity)
        s5 == NoRulesApplied(s4)
    IN  [final_supply |-> s5.supply,
         wagons_required |-> s5.wagons_required,
         wagon_type |-> feats.wagon_type_required,
         wagon_capacity |-> wagon_capacity,
         rules_applied |-> s5.rules_applied]


-----------------------------------------------------------------------------
(* Inputs *)

Variants == {"local", "remote"}

StockyardIds == {"CMO_LOC_001", "CMO_LOC_005", "CMO_LOC_999"}
ProductIds == {"PROD_HRP_001", "PROD_HRC_001", "PROD_XXX_009"}

\* the part of the feature vector the engine reads
\* (create_prediction_features: quantity_per_wagon_tonnes, wagon_type_required)
FeaturesOf(static) ==
    [quantity_per_wagon_tonnes |-> static.wagon_capacity,
     wagon_type_required |-> static.wagon_type]

StaticRecords ==
    { GetStockyardProductDataLocal(s, p) :
        s \in {"CMO_LOC_001", "CMO_LOC_002", "CMO_LOC_999"},
        p \in {"PROD_HRP_001", "PROD_HRC_001", "PROD_CRS_001"} }

RawPredictions == { k * (DefaultWagonCapacity \div 2) : k \in (0 - MaxNegSteps)..MaxRawSteps }

\* rows of the stockyard_wagons endpoint
WagonRows ==
    { [stockyard_id |-> "CMO_LOC_001", available_wagons |-> n] : n \in 0..MaxAvail }
    \cup { [stockyard_id |-> "CMO_LOC_001"] }
    \cup { [stockyard_id |-> "CMO_LOC_005", available_wagons |-> 1] }

NoDatasets ==
    [stockyards |-> NoResponse, stockyard_products |-> NoResponse,
     product_wagon_compatibility |-> NoResponse, stockyard_wagons |-> NoResponse]

\* the orchestrator at rest, for the specifications of the single functions
OrchestratorIdle ==
    /\ model = "unset" /\ feature_info = "unset"
    /\ pc = "idle" /\ stages = << >> /\ response = Pending /\ served = 0

-----------------------------------------------------------------------------
(* Specification of the constraint engine *)

RulesInit ==
    /\ variant \in Variants
    /\ datasets \in
         IF variant = "local" THEN {NoDatasets}
         ELSE { [NoDatasets EXCEPT !.stockyard_wagons = r] : r \in Responses(WagonRows) }
    /\ stockyard_id \in StockyardIds
    /\ product_id = "PROD_HRP_001"
    /\ raw_prediction \in RawPredictions
    /\ features \in { FeaturesOf(sd) : sd \in StaticRecords }
    /\ available_wagons = Pending
    /\ business_result = Pending
    /\ reapplied_result = Pending
    /\ static_data = Pending
    /\ input_data = EmptyDict
    /\ validation_errors = Pending
    /\ OrchestratorIdle

\* business_rule.py: apply_business_rules
ApplyBusinessRulesLocal ==
    /\ variant = "local"
    /\ business_result = Pending
    /\ available_wagons' = Return(GetAvailableWagonsLocal(stockyard_id))
    /\ business_result' =
         Return(ApplyBusinessRules(raw_prediction, features, GetAvailableWagonsLocal(stockyard_id)))
    /\ UNCHANGED << variant, datasets, stockyard_id, product_id, raw_prediction, features,
                    reapplied_result, static_data, input_data, validation_errors,
                    model, feature_info, pc, stages, response, served >>

\* business_rule2.py: apply_business_rules
ApplyBusinessRulesRemote ==
    /\ variant = "remote"
    /\ business_result = Pending
    /\ available_wagons' = Return(GetAvailableWagonsRemote(stockyard_id, datasets.stockyard_wagons))
    /\ business_result' =
         Return(ApplyBusinessRules(raw_prediction, features,
                    GetAvailableWagonsRemote(stockyard_id, datasets.stockyard_wagons)))
    /\ UNCHANGED << variant, datasets, stockyard_id, product_id, raw_prediction, features,
                    reapplied_result, static_data, input_data, validation_errors,
                    model, feature_info, pc, stages, response, served >>

\* apply_business_rules called again with raw_prediction = the returned final_supply,
\* same features and stockyard, the dataset service answering as before
ReapplyBusinessRules ==
    /\ business_result # Pending
    /\ reapplied_result = Pending
    /\ reapplied_result' =
         Return(ApplyBusinessRules(business_result.value.final_supply, features,
                    GetAvailableWagons(variant, stockyard_id, datasets)))
    /\ UNCHANGED << variant, datasets, stockyard_id, product_id, raw_prediction, features,
                    available_wagons, business_result, static_data, input_data,
                    validation_errors, model, feature_info, pc, stages, response, served >>

RulesNext == ApplyBusinessRulesLocal \/ ApplyBusinessRulesRemote \/ ReapplyBusinessRules

RulesSpec == RulesInit /\ [][RulesNext]_vars

\* C1: final_supply is an exact integer multiple of wagon_capacity
\* (final_supply = wagons_required * wagon_capacity), and applying the engine to its own
\* final_supply returns the same final_supply and the same wagons_required
C1_MultipleAndFixedPoint ==
    /\ business_result # Pending =>
          /\ business_result.value.final_supply =
                business_result.value.wagons_required * features.quantity_per_wagon_tonnes
          /\ business_result.value.final_supply % features.quantity_per_wagon_tonnes = 0
    /\ reapplied_result # Pending =>
          /\ reapplied_result.value.final_supply = business_result.value.final_supply
          /\ reapplied_result.value.wagons_required = business_result.value.wagons_required

\* the engine changed the prediction (clamped and rounded it) and was then re-applied
C1_Witness ==
    /\ reapplied_result # Pending
    /\ business_result.value.final_supply # raw_prediction
    /\ "wagon_capacity_limit" \in { business_result.value.rules_applied[i] :
                                      i \in 1..Len(business_result.value.rules_applied) }
    /\ business_result.value.wagons_required > 1


\* the trail of the first call, as a set
Trail == { business_result.value.rules_applied[i] :
             i \in 1..Len(business_result.value.rules_applied) }

\* C2: for raw_prediction < 0 the engine returns final_supply >= 0 and a trail that
\* contains "negative_supply_clipped"
C2_NegativeClipped ==
    (business_result # Pending /\ raw_prediction < 0) =>
        /\ business_result.value.final_supply >= 0
        /\ "negative_supply_clipped" \in Trail

\* a negative prediction of more than one wagon load went through the engine
C2_Witness ==
    /\ business_result # Pending
    /\ raw_prediction <= 0 - features.quantity_per_wagon_tonnes
    /\ business_result.value.final_supply = 0

\* the supply rule 3 rounds: the prediction clipped at 0 and at the availability limit
ClampedSupply ==
    LET clipped == IF raw_prediction < 0 THEN 0 ELSE raw_prediction
        limit == available_wagons.value * features.quantity_per_wagon_tonnes
    IN  IF clipped > limit THEN limit ELSE clipped

\* round(supply / wagon_capacity) = 0: the supply is at most half a wagon load
\* (exactly half rounds to the even neighbour, 0)
RoundsToZero ==
    ClampedSupply >= 0 /\ 2 * ClampedSupply <= features.quantity_per_wagon_tonnes

\* C3: when raw_prediction > 0 and round(supply / wagon_capacity) after rules 1-3 is 0,
\* the engine returns wagons_required = 1 and final_supply = wagon_capacity and the trail
\* contains "minimum_supply"; "minimum_supply" is in the trail in no other case
C3_MinimumSupply ==
    business_result # Pending =>
        IF raw_prediction > 0 /\ RoundsToZero
        THEN /\ business_result.value.wagons_required = 1
             /\ business_result.value.final_supply = features.quantity_per_wagon_tonnes
             /\ "minimum_supply" \in Trail
        ELSE "minimum_supply" \notin Trail

\* a positive prediction of exactly half a wagon load was rounded to 0 wagons and
\* forced up to one wagon
C3_Witness ==
    /\ business_result # Pending
    /\ raw_prediction > 0
    /\ 2 * raw_prediction = features.quantity_per_wagon_tonnes
    /\ business_result.value.rules_applied = << "wagon_rounding", "minimum_supply" >>

\* the rules whose condition holds for the inputs of the first call
FiredRules ==
    LET cap == features.quantity_per_wagon_tonnes
        clipped == IF raw_prediction < 0 THEN 0 ELSE raw_prediction
    IN  (IF raw_prediction < 0 THEN {"negative_supply_clipped"} ELSE {})
        \cup (IF clipped > available_wagons.value * cap THEN {"wagon_capacity_limit"} ELSE {})
        \cup (IF ClampedSupply % cap # 0 THEN {"wagon_rounding"} ELSE {})
        \cup (IF raw_prediction > 0 /\ RoundsToZero THEN {"minimum_supply"} ELSE {})

RuleOrder(rule) ==
    CASE rule = "negative_supply_clipped" -> 1
      [] rule = "wagon_capacity_limit" -> 2
      [] rule = "wagon_rounding" -> 3
      [] rule = "minimum_supply" -> 4
      [] OTHER -> 5

\* C4: the trail is never empty; it is exactly <<"no_rules_applied">> iff none of the four
\* rules fired; otherwise it lists the fired rules, each once, in the fixed rule order,
\* and does not contain "no_rules_applied"
C4_Trail ==
    business_result # Pending =>
        LET trail == business_result.value.rules_applied
        IN  /\ Len(trail) > 0
            /\ (trail = << "no_rules_applied" >>) <=> (FiredRules = {})
            /\ FiredRules # {} =>
                  /\ Trail = FiredRules
                  /\ "no_rules_applied" \notin Trail
                  /\ \A i, j \in 1..Len(trail) :
                        i < j => RuleOrder(trail[i]) < RuleOrder(trail[j])

\* two rules fired in one call
C4_Witness ==
    /\ business_result # Pending
    /\ Len(business_result.value.rules_applied) >= 2
    /\ business_result.value.wagons_required >= 1


-----------------------------------------------------------------------------
(* Reference data, remote variant: feature_engineering2.py *)

\* the record returned after the try block
FallbackRecord ==
    [wagon_capacity |-> 5000, wagon_type |-> "BOY", loading_cost |-> 1500,
     distance |-> 150000, max_capacity |-> 5000]

\* the subclasses of Exception a lookup can raise: requests' errors and fastapi's
\* HTTPException (starlette.exceptions.HTTPException derives from Exception)
ExceptionClasses == {"RequestException", "HTTPException"}

\* "except Exception as e" catches every subclass of Exception
ExceptException(exc) == exc \in ExceptionClasses

\* the body of the try block of get_stockyard_product_data
TryStockyardProductData(sid, pid, ds) ==
    LET responses == << ds.stockyards, ds.stockyard_products, ds.product_wagon_compatibility >>
        stockyards == ds.stockyards.json
        stockyard_products == ds.stockyard_products.json
        product_compatibility == ds.product_wagon_compatibility.json
        s_matches == { i \in 1..Len(stockyards) : stockyards[i].stockyard_id = sid }
        c_matches == { i \in 1..Len(product_compatibility) :
                         product_compatibility[i].product_id = pid }
        sp_matches == { i \in 1..Len(stockyard_products) :
                          /\ stockyard_products[i].stockyard_id = sid
                          /\ stockyard_products[i].product_id = pid }
        stockyard == stockyards[First(s_matches)]
        compatibility == IF c_matches = {} THEN EmptyDict
                         ELSE product_compatibility[First(c_matches)]
        stockyard_product == IF sp_matches = {} THEN EmptyDict
                             ELSE stockyard_products[First(sp_matches)]
    IN  IF \E i \in 1..3 : responses[i].raises
        THEN Raise("RequestException", "connection failed")
        ELSE IF \A i \in 1..3 : responses[i].status_code = 200
        THEN IF s_matches = {}
             THEN Raise("HTTPException", << 400, "Stockyard not found", sid >>)
             ELSE Return([wagon_capacity |-> Get(compatibility, "wagon_capacity_tonnes", 5000),
                          wagon_type |-> Get(compatibility, "preferred_wagon_type", "BOY"),
                          loading_cost |-> Get(stockyard_product, "loading_cost", 1500),
                          distance |-> Get(stockyard, "distance_from_plant_km", 150000),
                          max_capacity |-> Get(stockyard, "max_capacity_tonnes", 5000)])
        ELSE [kind |-> "fallthrough"]

\* get_stockyard_product_data letting every exception of the try block escape
GetStockyardProductDataRemote_Propagates(sid, pid, ds) ==
    LET body == TryStockyardProductData(sid, pid, ds)
    IN  IF body.kind = "fallthrough" THEN Return(FallbackRecord) ELSE body

\* get_stockyard_product_data: the try block, its except clause, the fallback return
GetStockyardProductDataRemote(sid, pid, ds) ==
    LET body == TryStockyardProductData(sid, pid, ds)
    IN  IF body.kind = "return" THEN body
        ELSE IF body.kind = "raise" /\ ~ExceptException(body.exc) THEN body
        ELSE Return(FallbackRecord)

-----------------------------------------------------------------------------
(* Specification of the reference-data lookups *)

LookupStockyards == StockyardIds \cup {"CMO_LOC_002"}
LookupProducts == ProductIds \cup {"PROD_CRS_001"}

\* rows of the stockyards endpoint
StockyardRows ==
    { [stockyard_id |-> "CMO_LOC_001", distance_from_plant_km |-> 161727,
       max_capacity_tonnes |-> 6000],
      [stockyard_id |-> "CMO_LOC_001"] }

\* rows of the stockyard_products endpoint
StockyardProductRows ==
    { [stockyard_id |-> "CMO_LOC_001", product_id |-> "PROD_HRP_001", loading_cost |-> 1400],
      [stockyard_id |-> "CMO_LOC_001", product_id |-> "PROD_HRP_001"],
      [stockyard_id |-> "CMO_LOC_001", product_id |-> "PROD_HRC_001", loading_cost |-> 1200] }

\* rows of the product_wagon_compatibility endpoint
CompatibilityRows ==
    { [product_id |-> "PROD_HRP_001", wagon_capacity_tonnes |-> 5479,
       preferred_wagon_type |-> "BOXN"],
      [product_id |-> "PROD_HRP_001"],
      [product_id |-> "PROD_HRC_001", wagon_capacity_tonnes |-> 0,
       preferred_wagon_type |-> "BOXN"] }

\* the answers to one remote call: the three endpoints of get_stockyard_product_data,
\* or the endpoint of get_available_wagons
LookupDatasets ==
    { [NoDatasets EXCEPT !.stockyards = a, !.stockyard_products = b,
                         !.product_wagon_compatibility = c] :
        a \in Responses(StockyardRows), b \in Responses(StockyardProductRows),
        c \in Responses(CompatibilityRows) }
    \cup { [NoDatasets EXCEPT !.stockyard_wagons = r] : r \in Responses(WagonRows) }

LookupInit ==
    /\ variant \in Variants
    /\ datasets \in IF variant = "local" THEN {NoDatasets} ELSE LookupDatasets
    /\ stockyard_id \in LookupStockyards
    /\ product_id \in LookupProducts
    /\ raw_prediction = 0
    /\ features = EmptyDict
    /\ available_wagons = Pending
    /\ business_result = Pending
    /\ reapplied_result = Pending
    /\ static_data = Pending
    /\ input_data = EmptyDict
    /\ validation_errors = Pending
    /\ OrchestratorIdle

\* feature_engineering.py: get_stockyard_product_data
LookupLocal ==
    /\ variant = "local"
    /\ static_data = Pending
    /\ static_data' = Return(GetStockyardProductDataLocal(stockyard_id, product_id))
    /\ UNCHANGED << variant, datasets, stockyard_id, product_id, raw_prediction, features,
                    available_wagons, business_result, reapplied_result, input_data,
                    validation_errors, model, feature_info, pc, stages, response, served >>

\* feature_engineering2.py: get_stockyard_product_data
LookupRemote ==
    /\ variant = "remote"
    /\ datasets.stockyards # NoResponse
    /\ static_data = Pending
    /\ static_data' = GetStockyardProductDataRemote(stockyard_id, product_id, datasets)
    /\ UNCHANGED << variant, datasets, stockyard_id, product_id, raw_prediction, features,
                    available_wagons, business_result, reapplied_result, input_data,
                    validation_errors, model, feature_info, pc, stages, response, served >>

\* business_rule.py: get_available_wagons
WagonsLocal ==
    /\ variant = "local"
    /\ available_wagons = Pending
    /\ available_wagons' = Return(GetAvailableWagonsLocal(stockyard_id))
    /\ UNCHANGED << variant, datasets, stockyard_id, product_id, raw_prediction, features,
                    business_result, reapplied_result, static_data, input_data, validation_errors,
                    model, feature_info, pc, stages, response, served >>

\* business_rule2.py: get_available_wagons
WagonsRemote ==
    /\ variant = "remote"
    /\ datasets.stockyard_wagons # NoResponse
    /\ available_wagons = Pending
    /\ available_wagons' = Return(GetAvailableWagonsRemote(stockyard_id, datasets.stockyard_wagons))
    /\ UNCHANGED << variant, datasets, stockyard_id, product_id, raw_prediction, features,
                    business_result, reapplied_result, static_data, input_data, validation_errors,
                    model, feature_info, pc, stages, response, served >>

LookupNext == LookupLocal \/ LookupRemote \/ WagonsLocal \/ WagonsRemote

LookupSpec == LookupInit /\ [][LookupNext]_vars


\* every endpoint of get_stockyard_product_data answered with status 200
AllLookupsSucceed ==
    \A r \in {datasets.stockyards, datasets.stockyard_products,
              datasets.product_wagon_compatibility} :
        ~r.raises /\ r.status_code = 200

\* one of the three dataset calls threw or answered with a status other than 200
SomeLookupFailed ==
    \E r \in {datasets.stockyards, datasets.stockyard_products,
              datasets.product_wagon_compatibility} :
        r.raises \/ r.status_code # 200

StockyardListed ==
    \E i \in 1..Len(datasets.stockyards.json) :
        datasets.stockyards.json[i].stockyard_id = stockyard_id

CompatibilityListed ==
    \E i \in 1..Len(datasets.product_wagon_compatibility.json) :
        datasets.product_wagon_compatibility.json[i].product_id = product_id

RelationListed ==
    \E i \in 1..Len(datasets.stockyard_products.json) :
        /\ datasets.stockyard_products.json[i].stockyard_id = stockyard_id
        /\ datasets.stockyard_products.json[i].product_id = product_id

\* C5: in the remote variant get_stockyard_product_data raises the "Stockyard not found"
\* rejection to its caller whenever all three lookups succeed and the stockyard is not in
\* the stockyard set; it never returns a default record then
C5_HardFailOnUnknownStockyard ==
    (variant = "remote" /\ static_data # Pending /\ AllLookupsSucceed /\ ~StockyardListed) =>
        /\ static_data.kind = "raise"
        /\ static_data.exc = "HTTPException"

\* the documented default record
DocumentedDefault ==
    [wagon_capacity |-> 5000, wagon_type |-> "BOY", loading_cost |-> 1500,
     distance |-> 150000, max_capacity |-> 5000]

\* C6: in the remote variant, when one of the three dataset calls throws or answers with
\* a status other than 200, get_stockyard_product_data returns the default record, the
\* one the local variant returns for an unknown key; when the stockyard is found and the
\* compatibility or the stockyard-product relation is missing, it returns a record with
\* the defaults in the missing fields
C6_SoftFailures ==
    (variant = "remote" /\ static_data # Pending) =>
        /\ SomeLookupFailed =>
              /\ static_data = Return(DocumentedDefault)
              /\ static_data.value = GetStockyardProductDataLocal("CMO_LOC_999", product_id)
        /\ (AllLookupsSucceed /\ StockyardListed) =>
              /\ static_data.kind = "return"
              /\ ~CompatibilityListed =>
                    /\ static_data.value.wagon_capacity = 5000
                    /\ static_data.value.wagon_type = "BOY"
              /\ ~RelationListed => static_data.value.loading_cost = 1500

\* the stockyards call answered, a later call threw, and the lookup returned
C6_Witness ==
    /\ variant = "remote"
    /\ static_data # Pending
    /\ datasets.stockyards.status_code = 200
    /\ StockyardListed
    /\ datasets.product_wagon_compatibility.raises

\* the stockyard was found, the product had no compatibility row and no relation row
C6_WitnessDefaults ==
    /\ variant = "remote"
    /\ static_data # Pending
    /\ AllLookupsSucceed /\ StockyardListed
    /\ ~CompatibilityListed /\ ~RelationListed
    /\ static_data.value.distance = 161727

\* the (stockyard, product) pairs of the static table, and the stockyards of the
\* availability table
EnumeratedPairs ==
    { << "CMO_LOC_001", "PROD_HRP_001" >>, << "CMO_LOC_001", "PROD_HRC_001" >>,
      << "CMO_LOC_002", "PROD_HRC_001" >>, << "CMO_LOC_002", "PROD_CRS_001" >> }

EnumeratedStockyards ==
    {"CMO_LOC_001", "CMO_LOC_002", "CMO_LOC_003", "CMO_LOC_004",
     "CMO_LOC_005", "CMO_LOC_006", "CMO_LOC_007", "CMO_LOC_008"}

\* C7: in the local variant get_stockyard_product_data returns the default record for
\* every pair that is not in the static table, and get_available_wagons returns 30 for
\* every stockyard that is not in its table
C7_LocalDefaults ==
    variant = "local" =>
        /\ (static_data # Pending /\ << stockyard_id, product_id >> \notin EnumeratedPairs) =>
              static_data = Return(DocumentedDefault)
        /\ (available_wagons # Pending /\ stockyard_id \notin EnumeratedStockyards) =>
              available_wagons = Return(30)

\* a known stockyard was asked for a product not listed under it, and an unknown
\* stockyard for its wagons
C7_Witness ==
    /\ variant = "local"
    /\ static_data # Pending
    /\ available_wagons # Pending
    /\ stockyard_id = "CMO_LOC_999"

C7_WitnessKnownStockyard ==
    /\ variant = "local"
    /\ static_data # Pending
    /\ stockyard_id = "CMO_LOC_001"
    /\ product_id = "PROD_CRS_001"


-----------------------------------------------------------------------------
(* Input validation: data_validation.py, data_validation2.py *)

MaxInventory == 10000
MaxDemand == 5000

required_fields == << "stockyard_id", "product_id", "current_inventory", "next_7day_demand" >>

\* str.startswith
StartsWith(str, prefix) == Len(str) >= Len(prefix) /\ SubSeq(str, 1, Len(prefix)) = prefix

IfError(cond, msg) == IF cond THEN << msg >> ELSE << >>

\* the loop over required_fields: one error for each field not in input_data
MissingFieldErrors(input) ==
    LET Missing(i) == IfError(required_fields[i] \notin DOMAIN input,
                              "Missing required field: " \o required_fields[i])
    IN  Missing(1) \o Missing(2) \o Missing(3) \o Missing(4)

\* local variant: the stockyard id has the prefix CMO_LOC_
StockyardFormatErrors(input) ==
    IfError("stockyard_id" \in DOMAIN input /\ ~StartsWith(input.stockyard_id, "CMO_LOC_"),
            "Invalid stockyard ID format")

\* local variant: the product id has the prefix PROD_
ProductFormatErrors(input) ==
    IfError("product_id" \in DOMAIN input /\ ~StartsWith(input.product_id, "PROD_"),
            "Invalid product ID format")

\* the inventory check accepting only values below the maximum
InventoryErrors_MaxExcluded(input) ==
    IF "current_inventory" \in DOMAIN input
    THEN IfError(input.current_inventory < 0, "Inventory cannot be negative")
         \o IfError(input.current_inventory >= MaxInventory,
                    "Inventory value too high (max 10000)")
    ELSE << >>

InventoryErrors(input) ==
    IF "current_inventory" \in DOMAIN input
    THEN IfError(input.current_inventory < 0, "Inventory cannot be negative")
         \o IfError(input.current_inventory > MaxInventory,
                    "Inventory value too high (max 10000)")
    ELSE << >>

DemandErrors(input) ==
    IF "next_7day_demand" \in DOMAIN input
    THEN IfError(input.next_7day_demand < 0, "Demand cannot be negative")
         \o IfError(input.next_7day_demand > MaxDemand, "Demand value too high (max 5000)")
    ELSE << >>

\* data_validation.py: validate_prediction_input
ValidatePredictionInputLocal(input) ==
    MissingFieldErrors(input) \o StockyardFormatErrors(input) \o ProductFormatErrors(input)
        \o InventoryErrors(input) \o DemandErrors(input)

\* remote variant: the stockyard id is one of the service's stockyards; an exception of
\* the call is an error, a status other than 200 is not
StockyardExistsErrors(input, resp) ==
    LET valid_stockyard_ids == { resp.json[i].stockyard_id : i \in 1..Len(resp.json) }
    IN  IF "stockyard_id" \notin DOMAIN input THEN << >>
        ELSE IF resp.raises THEN << "Error validating stockyard ID" >>
        ELSE IF resp.status_code = 200
        THEN IfError(input.stockyard_id \notin valid_stockyard_ids,
                     "Stockyard ID not found: " \o input.stockyard_id)
        ELSE << >>

\* remote variant: the product is related to the stockyard in stockyard_products
ProductAvailableErrors(input, resp) ==
    LET valid_combination ==
            \E i \in 1..Len(resp.json) :
                /\ resp.json[i].stockyard_id = input.stockyard_id
                /\ resp.json[i].product_id = input.product_id
    IN  IF ~("product_id" \in DOMAIN input /\ "stockyard_id" \in DOMAIN input) THEN << >>
        ELSE IF resp.raises THEN << "Error validating product-stockyard combination" >>
        ELSE IF resp.status_code = 200
        THEN IfError(~valid_combination,
                     "Product " \o input.product_id \o " not available at stockyard "
                        \o input.stockyard_id)
        ELSE << >>

\* data_validation2.py: validate_prediction_input
ValidatePredictionInputRemote(input, ds) ==
    MissingFieldErrors(input) \o StockyardExistsErrors(input, ds.stockyards)
        \o ProductAvailableErrors(input, ds.stockyard_products)
        \o InventoryErrors(input) \o DemandErrors(input)

-----------------------------------------------------------------------------
(* Specification of the validator *)

Around(limit) == (limit - MaxOver)..(limit + MaxOver)

RequestStockyards == {"CMO_LOC_001", "CMO_LOC_999", "LOC_CMO_LOC_7"}
RequestProducts == {"PROD_HRP_001", "HRP_PROD_1"}

\* the requests with all four fields
FullInputs ==
    [stockyard_id : RequestStockyards, product_id : RequestProducts,
     current_inventory : Around(0) \cup Around(MaxInventory),
     next_7day_demand : Around(0) \cup Around(MaxDemand)]

\* the requests with any of the fields left out
InputDatas ==
    { [f \in present |-> full[f]] :
        full \in FullInputs,
        present \in SUBSET {"stockyard_id", "product_id", "current_inventory",
                            "next_7day_demand"} }

ValidationDatasets ==
    { [NoDatasets EXCEPT !.stockyards = a, !.stockyard_products = b] :
        a \in Responses(StockyardRows), b \in Responses(StockyardProductRows) }

ValidateInit ==
    /\ variant \in Variants
    /\ datasets \in IF variant = "local" THEN {NoDatasets} ELSE ValidationDatasets
    /\ input_data \in InputDatas
    /\ stockyard_id = "CMO_LOC_001"
    /\ product_id = "PROD_HRP_001"
    /\ raw_prediction = 0
    /\ features = EmptyDict
    /\ available_wagons = Pending
    /\ business_result = Pending
    /\ reapplied_result = Pending
    /\ static_data = Pending
    /\ validation_errors = Pending
    /\ OrchestratorIdle

\* data_validation.py: validate_prediction_input
ValidateLocal ==
    /\ variant = "local"
    /\ validation_errors = Pending
    /\ validation_errors' = Return(ValidatePredictionInputLocal(input_data))
    /\ UNCHANGED << variant, datasets, stockyard_id, product_id, raw_prediction, features,
                    available_wagons, business_result, reapplied_result, static_data,
                    input_data, model, feature_info, pc, stages, response, served >>

\* data_validation2.py: validate_prediction_input
ValidateRemote ==
    /\ variant = "remote"
    /\ validation_errors = Pending
    /\ validation_errors' = Return(ValidatePredictionInputRemote(input_data, datasets))
    /\ UNCHANGED << variant, datasets, stockyard_id, product_id, raw_prediction, features,
                    available_wagons, business_result, reapplied_result, static_data,
                    input_data, model, feature_info, pc, stages, response, served >>

ValidateNext == ValidateLocal \/ ValidateRemote

ValidateSpec == ValidateInit /\ [][ValidateNext]_vars


\* the errors the validator returned, as a set
ErrorSet == { validation_errors.value[i] : i \in 1..Len(validation_errors.value) }

RangeMessages ==
    {"Inventory cannot be negative", "Inventory value too high (max 10000)",
     "Demand cannot be negative", "Demand value too high (max 5000)"}

\* the check an error message belongs to: 1 presence, 2 stockyard_id, 3 product_id,
\* 4 current_inventory, 5 next_7day_demand
CheckOf(msg) ==
    IF StartsWith(msg, "Missing required field: ") THEN 1
    ELSE IF \/ msg = "Invalid stockyard ID format"
            \/ msg = "Error validating stockyard ID"
            \/ StartsWith(msg, "Stockyard ID not found: ") THEN 2
    ELSE IF \/ msg = "Invalid product ID format"
            \/ msg = "Error validating product-stockyard combination"
            \/ StartsWith(msg, "Product ") THEN 3
    ELSE IF StartsWith(msg, "Inventory ") THEN 4
    ELSE IF StartsWith(msg, "Demand ") THEN 5
    ELSE 0

Has(field) == field \in DOMAIN input_data

ErrorsOfCheck(c) ==
    { i \in 1..Len(validation_errors.value) : CheckOf(validation_errors.value[i]) = c }

\* C8: the validator reports no range error exactly when current_inventory is in
\* [0, 10000] and next_7day_demand is in [0, 5000], both ends included, and rejects values
\* outside with the corresponding message; it reports, for each required field that is
\* absent, an error naming the field; all violations are accumulated, one error per
\* violated check, in the order presence, stockyard_id, product_id, current_inventory,
\* next_7day_demand
C8_Validation ==
    validation_errors # Pending =>
        LET errs == validation_errors.value
            inv_ok == Has("current_inventory") =>
                         (0 <= input_data.current_inventory
                            /\ input_data.current_inventory <= 10000)
            dem_ok == Has("next_7day_demand") =>
                         (0 <= input_data.next_7day_demand
                            /\ input_data.next_7day_demand <= 5000)
        IN  /\ (ErrorSet \cap RangeMessages = {}) <=> (inv_ok /\ dem_ok)
            /\ (Has("current_inventory") /\ input_data.current_inventory > 10000)
                  <=> "Inventory value too high (max 10000)" \in ErrorSet
            /\ (Has("current_inventory") /\ input_data.current_inventory < 0)
                  <=> "Inventory cannot be negative" \in ErrorSet
            /\ (Has("next_7day_demand") /\ input_data.next_7day_demand > 5000)
                  <=> "Demand value too high (max 5000)" \in ErrorSet
            /\ (Has("next_7day_demand") /\ input_data.next_7day_demand < 0)
                  <=> "Demand cannot be negative" \in ErrorSet
            /\ \A f \in {"stockyard_id", "product_id", "current_inventory",
                         "next_7day_demand"} :
                  ~Has(f) <=> ("Missing required field: " \o f) \in ErrorSet
            /\ \A i \in 1..Len(errs) : CheckOf(errs[i]) \in 1..5
            /\ \A i, j \in 1..Len(errs) : i < j => CheckOf(errs[i]) <= CheckOf(errs[j])
            /\ Cardinality(ErrorsOfCheck(1)) =
                  Cardinality({ f \in {"stockyard_id", "product_id", "current_inventory",
                                       "next_7day_demand"} : ~Has(f) })
            /\ \A c \in 2..5 : Cardinality(ErrorsOfCheck(c)) <= 1
            /\ Cardinality(ErrorsOfCheck(4)) = IF inv_ok THEN 0 ELSE 1
            /\ Cardinality(ErrorsOfCheck(5)) = IF dem_ok THEN 0 ELSE 1
            /\ variant = "local" =>
                  /\ Cardinality(ErrorsOfCheck(2)) =
                        IF Has("stockyard_id")
                              /\ ~StartsWith(input_data.stockyard_id, "CMO_LOC_")
                        THEN 1 ELSE 0
                  /\ Cardinality(ErrorsOfCheck(3)) =
                        IF Has("product_id") /\ ~StartsWith(input_data.product_id, "PROD_")
                        THEN 1 ELSE 0

\* a request without product_id, with a malformed stockyard id, an inventory of 10001 and
\* a demand of 5001 was validated: four errors, one per violated check
C8_Witness ==
    /\ validation_errors # Pending
    /\ variant = "local"
    /\ ~Has("product_id")
    /\ Has("current_inventory") /\ input_data.current_inventory = 10001
    /\ validation_errors.value =
          << "Missing required field: product_id", "Invalid stockyard ID format",
             "Inventory value too high (max 10000)", "Demand value too high (max 5000)" >>

\* a request at the inclusive limits was accepted
C8_WitnessBoundary ==
    /\ validation_errors # Pending
    /\ Has("current_inventory") /\ input_data.current_inventory = 10000
    /\ Has("next_7day_demand") /\ input_data.next_7day_demand = 5000
    /\ validation_errors.value = << >>

\* the stockyards call threw or answered with a status other than 200
StockyardUnconfirmed == datasets.stockyards.raises \/ datasets.stockyards.status_code # 200

\* the stockyards call answered 200 and lists the request's stockyard_id
StockyardConfirmed ==
    /\ ~datasets.stockyards.raises
    /\ datasets.stockyards.status_code = 200
    /\ Has("stockyard_id")
    /\ \E i \in 1..Len(datasets.stockyards.json) :
          datasets.stockyards.json[i].stockyard_id = input_data.stockyard_id

\* C9: in the remote validator, when the service cannot confirm the stockyard (the call
\* throws or answers with a non-success status) a validation-unavailable error is
\* recorded, and no request is accepted (empty error list) without its stockyard_id
\* confirmed as a member of the service's stockyard set
C9_UnavailableIsAnError ==
    (variant = "remote" /\ validation_errors # Pending) =>
        /\ (Has("stockyard_id") /\ StockyardUnconfirmed) =>
              "Error validating stockyard ID" \in ErrorSet
        /\ validation_errors.value = << >> => StockyardConfirmed


-----------------------------------------------------------------------------
(* The service: app.py *)

\* feature_info['feature_columns'] of a loaded schema: the columns the model was trained
\* on, all derived by create_prediction_features or one of them unknown to it
FeatureColumns(fi) ==
    IF fi = "schema" THEN << "quantity_per_wagon_tonnes" >>
    ELSE << "quantity_per_wagon_tonnes", "unknown_feature" >>

\* pd.DataFrame([input_features])[feature_info['feature_columns']] raises KeyError for a
\* column that is not a derived feature
ProjectionFails(feats, fi) ==
    \E i \in 1..Len(FeatureColumns(fi)) : FeatureColumns(fi)[i] \notin DOMAIN feats

HTTPException(status_code, detail) ==
    Raise("HTTPException", [status_code |-> status_code, detail |-> detail])

PredictionResponse(raw, result) ==
    [success |-> TRUE,
     raw_prediction |-> raw,
     final_prediction |-> result.final_supply,
     wagons_required |-> result.wagons_required,
     wagon_type |-> result.wagon_type,
     wagon_capacity |-> result.wagon_capacity,
     message |-> "Prediction successful",
     business_rules_applied |-> result.rules_applied]

Init ==
    /\ variant = "local"
    /\ datasets = NoDatasets
    /\ stockyard_id = "" /\ product_id = ""
    /\ input_data = EmptyDict
    /\ raw_prediction = 0
    /\ features = EmptyDict
    /\ available_wagons = Pending
    /\ business_result = Pending
    /\ reapplied_result = Pending
    /\ static_data = Pending
    /\ validation_errors = Pending
    /\ model = "unset" /\ feature_info = "unset"
    /\ pc = "startup"
    /\ stages = << >>
    /\ response = Pending
    /\ served = 0

\* module load: both joblib.load calls succeed
LoadModel ==
    /\ pc = "startup"
    /\ model' = "loaded"
    /\ feature_info' \in {"schema", "schema_with_unknown_column"}
    /\ pc' = "idle"
    /\ UNCHANGED << variant, datasets, stockyard_id, product_id, raw_prediction, features,
                    available_wagons, business_result, reapplied_result, static_data,
                    input_data, validation_errors, stages, response, served >>

\* module load: an exception in the try block leaves both globals None
LoadModelFails ==
    /\ pc = "startup"
    /\ model' = "None"
    /\ feature_info' = "None"
    /\ pc' = "idle"
    /\ UNCHANGED << variant, datasets, stockyard_id, product_id, raw_prediction, features,
                    available_wagons, business_result, reapplied_result, static_data,
                    input_data, validation_errors, stages, response, served >>

\* POST /predict arrives: a PredictionRequest has all four fields
ReceiveRequest ==
    /\ pc = "idle"
    /\ served < MaxRequests
    /\ input_data' \in FullInputs
    /\ stockyard_id' = input_data'.stockyard_id
    /\ product_id' = input_data'.product_id
    /\ pc' = "check_model"
    /\ UNCHANGED << variant, datasets, raw_prediction, features, available_wagons,
                    business_result, reapplied_result, static_data, validation_errors,
                    model, feature_info, stages, response, served >>

\* predict_supply: the model-availability check
CheckModel ==
    /\ pc = "check_model"
    /\ stages' = Append(stages, "model_check")
    /\ IF model = "None" \/ feature_info = "None"
       THEN /\ response' = HTTPException(500, << "ML model or feature info not loaded" >>)
            /\ pc' = "responded"
       ELSE /\ response' = response
            /\ pc' = "validate"
    /\ UNCHANGED << variant, datasets, stockyard_id, product_id, raw_prediction, features,
                    available_wagons, business_result, reapplied_result, static_data,
                    input_data, validation_errors, model, feature_info, served >>

\* step 1 without "except HTTPException: raise": the 400 rejection is caught by
\* "except Exception" and answered as a 500
ValidateRequest_Wrapped ==
    /\ pc = "validate"
    /\ stages' = Append(stages, "validation")
    /\ validation_errors' = Return(ValidatePredictionInputLocal(input_data))
    /\ IF ValidatePredictionInputLocal(input_data) # << >>
       THEN /\ response' = HTTPException(500, << "Prediction error: ", "HTTPException" >>)
            /\ pc' = "responded"
       ELSE /\ response' = response
            /\ pc' = "features"
    /\ UNCHANGED << variant, datasets, stockyard_id, product_id, raw_prediction, features,
                    available_wagons, business_result, reapplied_result, static_data,
                    input_data, model, feature_info, served >>

\* step 1 going on to the feature derivation whatever the validator returned
ValidateRequest_Continues ==
    /\ pc = "validate"
    /\ stages' = Append(stages, "validation")
    /\ validation_errors' = Return(ValidatePredictionInputLocal(input_data))
    /\ response' = response
    /\ pc' = "features"
    /\ UNCHANGED << variant, datasets, stockyard_id, product_id, raw_prediction, features,
                    available_wagons, business_result, reapplied_result, static_data,
                    input_data, model, feature_info, served >>

\* predict_supply step 1: validate; a non-empty error list raises the 400 rejection,
\* which "except HTTPException: raise" passes on
ValidateRequest ==
    /\ pc = "validate"
    /\ stages' = Append(stages, "validation")
    /\ validation_errors' = Return(ValidatePredictionInputLocal(input_data))
    /\ IF ValidatePredictionInputLocal(input_data) # << >>
       THEN /\ response' = HTTPException(400, << "Validation errors: " >>
                                                \o ValidatePredictionInputLocal(input_data))
            /\ pc' = "responded"
       ELSE /\ response' = response
            /\ pc' = "features"
    /\ UNCHANGED << variant, datasets, stockyard_id, product_id, raw_prediction, features,
                    available_wagons, business_result, reapplied_result, static_data,
                    input_data, model, feature_info, served >>

\* predict_supply step 2: create_prediction_features
CreateFeatures ==
    /\ pc = "features"
    /\ stages' = Append(stages, "features")
    /\ static_data' = Return(GetStockyardProductDataLocal(stockyard_id, product_id))
    /\ features' = FeaturesOf(GetStockyardProductDataLocal(stockyard_id, product_id))
    /\ pc' = "model"
    /\ UNCHANGED << variant, datasets, stockyard_id, product_id, raw_prediction,
                    available_wagons, business_result, reapplied_result, input_data,
                    validation_errors, model, feature_info, response, served >>

\* predict_supply steps 3 and 4: the projection on the schema's columns and model.predict
\* return a raw prediction
InvokeModel ==
    /\ pc = "model"
    /\ ~ProjectionFails(features, feature_info)
    /\ stages' = Append(stages, "model")
    /\ raw_prediction' \in RawPredictions
    /\ pc' = "rules"
    /\ UNCHANGED << variant, datasets, stockyard_id, product_id, features, available_wagons,
                    business_result, reapplied_result, static_data, input_data,
                    validation_errors, model, feature_info, response, served >>

\* predict_supply steps 3 and 4 raising: KeyError of the projection, or an exception of
\* model.predict; "except Exception" answers 500 with the exception's text
InvokeModelFails ==
    /\ pc = "model"
    /\ stages' = Append(stages, "model")
    /\ \E e \in IF ProjectionFails(features, feature_info)
                THEN {"KeyError"} ELSE {"ValueError"} :
          response' = HTTPException(500, << "Prediction error: ", e >>)
    /\ pc' = "responded"
    /\ UNCHANGED << variant, datasets, stockyard_id, product_id, raw_prediction, features,
                    available_wagons, business_result, reapplied_result, static_data,
                    input_data, validation_errors, model, feature_info, served >>

\* predict_supply steps 3 to 5 for a prediction that is not a finite number (NaN or an
\* infinity, which no tonnage in hundredths stands for): model.predict returns it,
\* round(raw_wagons) in apply_business_rules raises ValueError or OverflowError, and
\* "except Exception" answers 500 with the exception's text
ApplyRulesFails ==
    /\ pc = "model"
    /\ ~ProjectionFails(features, feature_info)
    /\ stages' = stages \o << "model", "rules" >>
    /\ available_wagons' = Return(GetAvailableWagonsLocal(stockyard_id))
    /\ \E e \in {"ValueError", "OverflowError"} :
          /\ business_result' = Raise(e, << "cannot convert float to integer" >>)
          /\ response' = HTTPException(500, << "Prediction error: ", e >>)
    /\ pc' = "responded"
    /\ UNCHANGED << variant, datasets, stockyard_id, product_id, raw_prediction, features,
                    reapplied_result, static_data, input_data, validation_errors,
                    model, feature_info, served >>

\* predict_supply step 5 and the response
ApplyRules ==
    /\ pc = "rules"
    /\ stages' = Append(stages, "rules")
    /\ available_wagons' = Return(GetAvailableWagonsLocal(stockyard_id))
    /\ business_result' =
          Return(ApplyBusinessRules(raw_prediction, features,
                                    GetAvailableWagonsLocal(stockyard_id)))
    /\ response' =
          Return(PredictionResponse(raw_prediction,
                    ApplyBusinessRules(raw_prediction, features,
                                       GetAvailableWagonsLocal(stockyard_id))))
    /\ pc' = "responded"
    /\ UNCHANGED << variant, datasets, stockyard_id, product_id, raw_prediction, features,
                    reapplied_result, static_data, input_data, validation_errors,
                    model, feature_info, served >>

\* the response is sent; the locals of the call are gone
SendResponse ==
    /\ pc = "responded"
    /\ served' = served + 1
    /\ pc' = "idle"
    /\ stages' = << >>
    /\ response' = Pending
    /\ input_data' = EmptyDict
    /\ stockyard_id' = "" /\ product_id' = ""
    /\ raw_prediction' = 0
    /\ features' = EmptyDict
    /\ available_wagons' = Pending
    /\ business_result' = Pending
    /\ static_data' = Pending
    /\ validation_errors' = Pending
    /\ UNCHANGED << variant, datasets, reapplied_result, model, feature_info >>

Next ==
    \/ LoadModel \/ LoadModelFails
    \/ ReceiveRequest \/ CheckModel \/ ValidateRequest \/ CreateFeatures
    \/ InvokeModel \/ InvokeModelFails \/ ApplyRulesFails \/ ApplyRules \/ SendResponse

Spec == Init /\ [][Next]_vars


StageOrder == << "model_check", "validation", "features", "model", "rules" >>

StageSet == { stages[i] : i \in 1..Len(stages) }

\* the stages run so far are an initial part of the fixed order; a request met by an
\* unloaded model or schema stops at the availability check with the 500 rejection; a
\* request with validation errors stops at the validation with a 400 rejection that
\* lists every violation; a later stage has run only if the earlier ones succeeded
C10_Stages ==
    /\ Len(stages) <= Len(StageOrder)
    /\ stages = SubSeq(StageOrder, 1, Len(stages))
    /\ (pc # "startup" /\ (model = "None" \/ feature_info = "None")) =>
          /\ Len(stages) <= 1
          /\ validation_errors = Pending
          /\ "model_check" \in StageSet =>
                response = HTTPException(500, << "ML model or feature info not loaded" >>)
    /\ (validation_errors # Pending /\ validation_errors.value # << >>) =>
          /\ stages = << "model_check", "validation" >>
          /\ static_data = Pending /\ features = EmptyDict /\ business_result = Pending
          /\ response.kind = "raise"
          /\ response.detail.status_code = 400
          /\ \A i \in 1..Len(validation_errors.value) :
                \E j \in 1..Len(response.detail.detail) :
                    response.detail.detail[j] = validation_errors.value[i]
    /\ "validation" \in StageSet => (model = "loaded" /\ feature_info # "None")
    /\ "features" \in StageSet => validation_errors = Return(<< >>)
    /\ "model" \in StageSet => static_data # Pending
    /\ "rules" \in StageSet =>
          /\ business_result # Pending
          /\ response.kind = "return" <=> business_result.kind = "return"
    /\ response.kind = "raise" => (pc = "responded" /\ business_result.kind # "return")

\* C10: each predict call runs its stages in the order model-availability check,
\* validation, feature derivation, model invocation, business rules, and a failure at a
\* stage keeps every later stage from running; when the model or the schema failed to
\* load every request is rejected before validation, for the whole life of the process;
\* when validation returns errors the request is rejected with all of them and neither
\* the feature derivation, the model nor the constraint engine is invoked
C10_StagedPipeline ==
    /\ []C10_Stages
    /\ [][(model = "None" \/ feature_info = "None")
            => (model' = "None" /\ feature_info' = "None")]_vars

\* the second request of a process was rejected by the validator with several violations
C10_Witness ==
    /\ served >= 1
    /\ pc = "responded"
    /\ validation_errors # Pending
    /\ Len(validation_errors.value) >= 2
    /\ response.kind = "raise"

\* the second request of a process whose model failed to load was rejected at the check
C10_WitnessUnloaded ==
    /\ served >= 1
    /\ model = "None"
    /\ pc = "responded"
    /\ stages = << "model_check" >>

\* a request went through all five stages
C10_WitnessSuccess ==
    /\ pc = "responded"
    /\ stages = StageOrder
    /\ response.kind = "return"


\* the three ways a predict call ends
SuccessResponse ==
    /\ response.kind = "return"
    /\ response.value.success
    /\ response.value.message = "Prediction successful"

ValidationRejection ==
    /\ response.kind = "raise"
    /\ response.exc = "HTTPException"
    /\ response.detail.status_code = 400
    /\ response.detail.detail = << "Validation errors: " >> \o validation_errors.value

ErrorResponse ==
    /\ response.kind = "raise"
    /\ response.exc = "HTTPException"
    /\ response.detail.status_code = 500

\* an internal error that carries the text of exception e
InternalError(e) == response = HTTPException(500, << "Prediction error: ", e >>)

\* C11: a predict call ends in exactly one of a success response, a validation rejection
\* (400) that lists the violations, or an error response; an exception of the feature
\* derivation, the model invocation or the rule application is answered as an internal
\* error with the exception's message, never as a success; a validation rejection is
\* passed on as it is and not turned into an internal error
C11_OneOutcome ==
    pc = "responded" =>
        /\ response # Pending
        /\ Cardinality({ o \in {"success", "rejected", "error"} :
                            \/ o = "success" /\ SuccessResponse
                            \/ o = "rejected" /\ ValidationRejection
                            \/ o = "error" /\ ErrorResponse }) = 1
        /\ (validation_errors # Pending /\ validation_errors.value # << >>)
              => ValidationRejection
        /\ ValidationRejection => validation_errors.value # << >>
        /\ ("model" \in StageSet /\ ProjectionFails(features, feature_info))
              => InternalError("KeyError")
        /\ (stages = << "model_check", "validation", "features", "model" >>)
              => \E e \in {"KeyError", "ValueError"} : InternalError(e)
        /\ business_result.kind = "raise" => InternalError(business_result.exc)
        /\ SuccessResponse =>
              /\ stages = StageOrder
              /\ business_result.kind = "return"
              /\ response.value.final_prediction = business_result.value.final_supply
              /\ response.value.business_rules_applied = business_result.value.rules_applied

\* the engine raised on a prediction that is not a finite number and the call was
\* answered with the internal error
C11_Witness ==
    /\ pc = "responded"
    /\ business_result.kind = "raise"
    /\ stages = StageOrder
    /\ response.kind = "raise"

\* a validation rejection left the guarded block as a 400
C11_WitnessRejection ==
    /\ pc = "responded"
    /\ ValidationRejection
    /\ Len(validation_errors.value) >= 1


-----------------------------------------------------------------------------
(* The remote calls when the dataset service does not answer *)

\* the dataset service accepts the connection and never sends a response
Unanswered == [raises |-> FALSE, status_code |-> 0, json |-> << >>, unanswered |-> TRUE]

\* the timeout requests.get is called with: every call is requests.get(url), and
\* without a timeout argument requests waits for the response without limit
RequestTimeout == "None"

\* requests.get(url) does not come back
Blocks(resp) == "unanswered" \in DOMAIN resp /\ RequestTimeout = "None"

\* get_stockyard_product_data issues its three calls one after the other inside one try
\* block: a call is made when the calls before it came back without raising
LookupBlocked(ds) ==
    \/ Blocks(ds.stockyards)
    \/ /\ ~ds.stockyards.raises
       /\ \/ Blocks(ds.stockyard_products)
          \/ ~ds.stockyard_products.raises /\ Blocks(ds.product_wagon_compatibility)

\* validate_prediction_input calls stockyards when stockyard_id is given and
\* stockyard_products when both ids are given, each in a try block of its own
ValidateBlocked(input, ds) ==
    \/ "stockyard_id" \in DOMAIN input /\ Blocks(ds.stockyards)
    \/ /\ "product_id" \in DOMAIN input /\ "stockyard_id" \in DOMAIN input
       /\ Blocks(ds.stockyard_products)

\* the answers to one remote call, each endpoint possibly unanswered
TimeoutLookupDatasets ==
    { [NoDatasets EXCEPT !.stockyards = a, !.stockyard_products = b,
                         !.product_wagon_compatibility = c] :
        a \in Responses(StockyardRows) \cup {Unanswered},
        b \in Responses(StockyardProductRows) \cup {Unanswered},
        c \in Responses(CompatibilityRows) \cup {Unanswered} }

TimeoutWagonDatasets ==
    { [NoDatasets EXCEPT !.stockyard_wagons = r] :
        r \in Responses(WagonRows) \cup {Unanswered} }

TimeoutValidationDatasets ==
    { [NoDatasets EXCEPT !.stockyards = a, !.stockyard_products = b] :
        a \in Responses(StockyardRows) \cup {Unanswered},
        b \in Responses(StockyardProductRows) \cup {Unanswered} }

\* one remote function is about to be called: get_stockyard_product_data,
\* get_available_wagons or validate_prediction_input
TimeoutInit ==
    /\ variant = "remote"
    /\ \/ /\ datasets \in TimeoutLookupDatasets \cup TimeoutWagonDatasets
          /\ stockyard_id \in {"CMO_LOC_001", "CMO_LOC_999"}
          /\ product_id \in {"PROD_HRP_001", "PROD_XXX_009"}
          /\ input_data = EmptyDict
       \/ /\ datasets \in TimeoutValidationDatasets
          /\ stockyard_id = "" /\ product_id = ""
          /\ input_data \in InputDatas
    /\ raw_prediction = 0
    /\ features = EmptyDict
    /\ available_wagons = Pending
    /\ business_result = Pending
    /\ reapplied_result = Pending
    /\ static_data = Pending
    /\ validation_errors = Pending
    /\ model = "unset" /\ feature_info = "unset"
    /\ pc = "idle" /\ stages = << >> /\ response = Pending /\ served = 0

\* the function is called and issues its first requests.get
CallRemote ==
    /\ pc = "idle"
    /\ pc' = "waiting"
    /\ UNCHANGED << variant, datasets, stockyard_id, product_id, raw_prediction, features,
                    available_wagons, business_result, reapplied_result, static_data,
                    input_data, validation_errors, model, feature_info, stages,
                    response, served >>

\* feature_engineering2.py: get_stockyard_product_data returns
LookupReturns ==
    /\ pc = "waiting"
    /\ datasets \in TimeoutLookupDatasets
    /\ ~LookupBlocked(datasets)
    /\ static_data' = GetStockyardProductDataRemote(stockyard_id, product_id, datasets)
    /\ pc' = "returned"
    /\ UNCHANGED << variant, datasets, stockyard_id, product_id, raw_prediction, features,
                    available_wagons, business_result, reapplied_result, input_data,
                    validation_errors, model, feature_info, stages, response, served >>

\* business_rule2.py: get_available_wagons returns
WagonsReturns ==
    /\ pc = "waiting"
    /\ datasets \in TimeoutWagonDatasets
    /\ ~Blocks(datasets.stockyard_wagons)
    /\ available_wagons' =
          Return(GetAvailableWagonsRemote(stockyard_id, datasets.stockyard_wagons))
    /\ pc' = "returned"
    /\ UNCHANGED << variant, datasets, stockyard_id, product_id, raw_prediction, features,
                    business_result, reapplied_result, static_data, input_data,
                    validation_errors, model, feature_info, stages, response, served >>

\* data_validation2.py: validate_prediction_input returns
ValidateReturns ==
    /\ pc = "waiting"
    /\ datasets \in TimeoutValidationDatasets
    /\ ~ValidateBlocked(input_data, datasets)
    /\ validation_errors' = Return(ValidatePredictionInputRemote(input_data, datasets))
    /\ pc' = "returned"
    /\ UNCHANGED << variant, datasets, stockyard_id, product_id, raw_prediction, features,
                    available_wagons, business_result, reapplied_result, static_data,
                    input_data, model, feature_info, stages, response, served >>

TimeoutNext == CallRemote \/ LookupReturns \/ WagonsReturns \/ ValidateReturns

\* a call that can return does return
TimeoutSpec == TimeoutInit /\ [][TimeoutNext]_vars /\ WF_vars(TimeoutNext)

\* C12: every remote reference-data and validation call carries a timeout, so a call of
\* get_stockyard_product_data, get_available_wagons or validate_prediction_input always
\* comes to its return, also when the dataset service never responds
C12_RemoteCallsReturn == pc = "returned" \/ ENABLED TimeoutNext


-----------------------------------------------------------------------------
(* The reference record as a divisor *)

\* C13: every record get_stockyard_product_data returns, from the local table or from
\* any answers of the dataset service, has wagon_capacity > 0, so the divisions by
\* wagon_capacity in create_prediction_features and apply_business_rules never divide
\* by zero
C13_WagonCapacityPositive ==
    static_data.kind = "return" => static_data.value.wagon_capacity > 0


-----------------------------------------------------------------------------
(* The availability clamp and the minimum dispatch *)

\* C14: apply_business_rules returns final_supply <= available wagons * wagon_capacity
\* and wagons_required <= available wagons, except when "minimum_supply" fired: then
\* wagons_required = 1 and final_supply is above the availability limit by at most one
\* wagon's capacity. With the local availability table (at least 25 wagons at every
\* stockyard, 30 by default) "wagon_capacity_limit" and "minimum_supply" never fire
\* together and wagons_required never exceeds the available wagons
C14_AvailabilityClamp ==
    /\ \A s \in DOMAIN wagon_availability : wagon_availability[s] >= 25
    /\ DefaultWagons = 30
    /\ business_result # Pending =>
          LET result == business_result.value
              wagon_capacity == features.quantity_per_wagon_tonnes
              max_supply_by_wagons == available_wagons.value * wagon_capacity
          IN  /\ IF "minimum_supply" \in Trail
                 THEN /\ result.wagons_required = 1
                      /\ result.final_supply - max_supply_by_wagons <= wagon_capacity
                 ELSE /\ result.final_supply <= max_supply_by_wagons
                      /\ result.wagons_required <= available_wagons.value
              /\ variant = "local" =>
                    /\ available_wagons.value >= 25
                    /\ ~("wagon_capacity_limit" \in Trail /\ "minimum_supply" \in Trail)
                    /\ result.wagons_required <= available_wagons.value

\* the local table limited a prediction to the wagons at the stockyard
C14_Witness ==
    /\ business_result # Pending
    /\ variant = "local"
    /\ "wagon_capacity_limit" \in Trail
    /\ business_result.value.wagons_required = available_wagons.value
    /\ business_result.value.final_supply < raw_prediction

\* the dataset service reports no wagons: the supply is clamped to 0 and then forced up
\* to one wagon, one wagon's capacity above the availability limit
C14_WitnessException ==
    /\ business_result # Pending
    /\ variant = "remote"
    /\ available_wagons.value = 0
    /\ business_result.value.rules_applied = << "wagon_capacity_limit", "minimum_supply" >>
    /\ business_result.value.wagons_required = 1
    /\ business_result.value.final_supply = features.quantity_per_wagon_tonnes

=============================================================================
